---- MODULE Spec2Model ----
(***************************************************************************)
(* Decision-and-replay engine of the trading bot: Side, Position,          *)
(* MyStrategy, Trader, MockExchange (the market simulator) and Simulator   *)
(* (the replay driver).                                                    *)
(*                                                                         *)
(* Numbers.  Prices are integers.  Every rate or fraction the code holds   *)
(* as a float (THRESHOLD, STOP_LOSS, LEVERAGE, MIN_ORDER_AMOUNT, the taker *)
(* fee, the amount precision, a trade's return) is an exact rational       *)
(* [num |-> n, den |-> d] with d > 0.  An amount is a whole number of      *)
(* amount-precision steps (amount = steps / precision.amount.den), and a   *)
(* balance is a whole number of 1 / Unit(symbol_info), the common          *)
(* denominator of every notional-plus-fee the simulator can charge.        *)
(* Arithmetic is exact: the rounding error of binary floats is not         *)
(* modelled.                                                               *)
(***************************************************************************)
EXTENDS Integers, Sequences, FiniteSets, TLC

VARIABLES
    exchange,   \* the MockExchange instance
    trader,     \* the Trader instance: Position, config, strategy, series
    pc,         \* the caller: "run", "trade", "evaluate", "done", "failed",
                \* "setup_failed" when Simulator.__init__ raised, "port"
                \* when the simulator is called directly, "live" before
                \* the one cycle of a live invocation
    time_index, \* Simulator.run's local: what next() returned last
    fills,      \* every create_order call so far, as the Orderer logs it
    cycle,      \* what the latest execute_trade call did
    last_call,  \* the latest operation and what it returned
    fault       \* the call the exchange answers by raising (None: none)

vars == <<exchange, trader, pc, time_index, fills, cycle, last_call, fault>>

(***************************************************************************)
(* Bounds of the model.                                                    *)
(***************************************************************************)
\* Longest price series handed to the Trader.
MaxSeries == 4
\* Most operations in one run of direct calls on the simulator.
MaxCalls == 3

(***************************************************************************)
(* Arithmetic helpers.                                                     *)
(***************************************************************************)
None == "None"

Abs(x) == IF x < 0 THEN -x ELSE x

Rat(n, d) == [num |-> n, den |-> d]

\* floor(n / d) for d > 0 and any integer n.
Floor(n, d) == IF n >= 0 THEN n \div d ELSE -((-n + d - 1) \div d)

\* The built-in round(): n / d (d > 0) to the nearest integer, ties to even.
round(n, d) ==
    LET q == Floor(n, d)
        r == n - q * d
    IN  IF 2 * r < d THEN q
        ELSE IF 2 * r > d THEN q + 1
        ELSE IF q % 2 = 0 THEN q ELSE q + 1

(***************************************************************************)
(* side.py                                                                 *)
(***************************************************************************)
BUY == "buy"
SELL == "sell"
Side == {BUY, SELL}

\* Side(value): a Side is itself; 'long' and 'short' go through _missing_.
SideOf(value) ==
    IF value \in Side THEN value
    ELSE IF value = "long" THEN BUY
    ELSE IF value = "short" THEN SELL
    ELSE None

sign(side) == IF side = BUY THEN 1 ELSE -1

(***************************************************************************)
(* position.py                                                             *)
(***************************************************************************)
\* entry_time: str = ''
EmptyTime == 0

Position(side, amount, entry_price, entry_time) ==
    [side |-> side, amount |-> amount,
     entry_price |-> entry_price, entry_time |-> entry_time]

\* Position() with every default.
NewPosition == Position(None, 0, 0, EmptyTime)

is_long(p) == p.side = BUY

is_none(p) == p.side = None

is_short(p) == p.side = SELL

inverse(p) == IF is_long(p) THEN SELL ELSE BUY

\* update() overwrites all four fields, whatever they were.
update(p, side, amount, entry_price, entry_time) ==
    [p EXCEPT !.side = side, !.amount = amount,
              !.entry_price = entry_price, !.entry_time = entry_time]

\* A close() that only clears the side.
close_side_only(p) == [p EXCEPT !.side = None]

\* close() is update(None): the other three fields take their defaults.
close(p) == update(p, None, 0, 0, EmptyTime)

(***************************************************************************)
(* strategy.py                                                             *)
(***************************************************************************)
MyStrategy(threshold, stop_loss) ==
    [threshold |-> threshold, stop_loss |-> stop_loss]

\* The change compared without abs(): only a rise can exceed the threshold.
should_open_rise_only(strategy, current_price, predicted_price) ==
    (predicted_price - current_price) * strategy.threshold.den
        > strategy.threshold.num * current_price

\* abs((predicted - current) / current) > threshold, for current # 0.
should_open_position(strategy, current_price, predicted_price) ==
    Abs(predicted_price - current_price) * strategy.threshold.den
        > strategy.threshold.num * Abs(current_price)

\* current < entry * (1 - stop_loss), cleared of the denominator.
BelowStop(strategy, entry_price, current_price) ==
    current_price * strategy.stop_loss.den
        < entry_price * (strategy.stop_loss.den - strategy.stop_loss.num)

\* current > entry * (1 + stop_loss), cleared of the denominator.
AboveStop(strategy, entry_price, current_price) ==
    current_price * strategy.stop_loss.den
        > entry_price * (strategy.stop_loss.den + strategy.stop_loss.num)

\* The forecast test alone, the stop-loss left out.
should_close_forecast_only(strategy, position, current_price, predicted) ==
    IF is_long(position)
    THEN predicted < current_price
    ELSE predicted > current_price

should_close_position(strategy, position, current_price, predicted_price) ==
    LET entry_price == position.entry_price
    IN  IF is_long(position)
        THEN \/ predicted_price < current_price
             \/ BelowStop(strategy, entry_price, current_price)
        ELSE \/ predicted_price > current_price
             \/ AboveStop(strategy, entry_price, current_price)

(***************************************************************************)
(* mock_exchange.py                                                        *)
(*                                                                         *)
(* historical_data is the frame's index: the sequence of its timestamps.   *)
(* Python's index[k] (k >= 0) is historical_data[k + 1] here.              *)
(***************************************************************************)
INITIAL_BALANCE == 1000

\* Balances count 1 / Unit(symbol_info).
Unit(symbol_info) == symbol_info.precision.amount.den * symbol_info.taker.den

\* The placeholder row __init__ puts first in _position_history.
InitialRow(balance) ==
    [entryTime |-> None, closeTime |-> None, side |-> None, amount |-> None,
     entryPrice |-> None, closePrice |-> None, return |-> None,
     balance |-> balance]

\* The instance once __init__, load_markets and fetch_ohlcv have run.
MockExchange(symbol_info, historical_data) ==
    [balance |-> INITIAL_BALANCE * Unit(symbol_info),
     historical_data |-> historical_data,
     position |-> NewPosition,
     position_history |-> <<InitialRow(INITIAL_BALANCE * Unit(symbol_info))>>,
     symbol_info |-> symbol_info,
     time_index |-> -1]

\* The balance after line 77 with the fee left out of the charge.
ChargeNoFee(ex, side, amount, price) ==
    ex.balance - sign(side) * (amount * price) * ex.symbol_info.taker.den

\* The charge with the side's sign dropped: every fill pays the notional.
ChargeUnsigned(ex, side, amount, price) ==
    ex.balance
        - (amount * price)
            * (ex.symbol_info.taker.den + ex.symbol_info.taker.num)

\* A charge that takes the fee off the balance on a buy and a sell alike.
ChargeFeeAsCost(ex, side, amount, price) ==
    ex.balance
        - sign(side) * (amount * price) * ex.symbol_info.taker.den
        - (amount * price) * ex.symbol_info.taker.num

\* self._balance -= sign * notional * (1 + transaction_fee)
Charge(ex, side, amount, price) ==
    LET notional == amount * price
        transaction_fee == ex.symbol_info.taker
    IN  ex.balance
            - sign(side) * notional * (transaction_fee.den + transaction_fee.num)

\* 'return': sign * (price - entry_price) / entry_price, the sign not negated.
ReturnRateUnsigned(side, price, entry_price) ==
    Rat(sign(side) * (price - entry_price), entry_price)

\* 'return': -sign * (price - entry_price) / entry_price
ReturnRate(side, price, entry_price) ==
    Rat(-sign(side) * (price - entry_price), entry_price)

\* The row create_order appends when it closes the position.
TradeRow(ex, side, amount, price, current_time, balance) ==
    [entryTime |-> ex.position.entry_time,
     closeTime |-> current_time,
     side |-> ex.position.side,
     amount |-> amount,
     entryPrice |-> ex.position.entry_price,
     closePrice |-> price,
     return |-> ReturnRate(side, price, ex.position.entry_price),
     balance |-> balance]

\* A create_order that adds to an open position instead of closing it.
create_order_stacking(ex, side, amount, price) ==
    LET ex1 == [ex EXCEPT !.balance = Charge(ex, side, amount, price)]
    IN  IF ex.time_index + 1 >= Len(ex.historical_data)
        THEN [exchange |-> ex1, raised |-> TRUE, order |-> None]
        ELSE LET current_time == ex.historical_data[ex.time_index + 2]
             IN  [exchange |->
                    [ex1 EXCEPT !.position =
                        update(ex.position, side, ex.position.amount + amount,
                               price, current_time)],
                  raised |-> FALSE,
                  order |-> [time |-> current_time, side |-> side,
                             amount |-> amount, price |-> price]]

\* A create_order that also logs the opening fill in _position_history.
create_order_logs_open(ex, side, amount, price) ==
    LET ex1 == [ex EXCEPT !.balance = Charge(ex, side, amount, price)]
    IN  IF ex.time_index + 1 >= Len(ex.historical_data)
        THEN [exchange |-> ex1, raised |-> TRUE, order |-> None]
        ELSE LET current_time == ex.historical_data[ex.time_index + 2]
                 row == TradeRow(ex, side, amount, price, current_time,
                                 ex1.balance)
             IN  [exchange |->
                    [ex1 EXCEPT
                        !.position =
                            IF is_none(ex.position)
                            THEN update(ex.position, side, amount, price,
                                        current_time)
                            ELSE close(ex.position),
                        !.position_history = Append(ex.position_history, row)],
                  raised |-> FALSE,
                  order |-> [time |-> current_time, side |-> side,
                             amount |-> amount, price |-> price]]

\* create_order: the balance is charged first; the timestamp lookup on the
\* next line raises IndexError when there is no step time_index + 1, and the
\* charge stays.
create_order(ex, side, amount, price) ==
    LET ex1 == [ex EXCEPT !.balance = Charge(ex, side, amount, price)]
    IN  IF ex.time_index + 1 >= Len(ex.historical_data)
        THEN [exchange |-> ex1, raised |-> TRUE, order |-> None]
        ELSE LET current_time == ex.historical_data[ex.time_index + 2]
                 order == [time |-> current_time, side |-> side,
                           amount |-> amount, price |-> price]
             IN  IF is_none(ex.position)
                 THEN [exchange |->
                         [ex1 EXCEPT !.position =
                             update(ex.position, side, amount, price,
                                    current_time)],
                       raised |-> FALSE, order |-> order]
                 ELSE [exchange |->
                         [ex1 EXCEPT
                             !.position_history =
                                 Append(ex.position_history,
                                        TradeRow(ex, side, amount, price,
                                                 current_time, ex1.balance)),
                             !.position = close(ex.position)],
                       raised |-> FALSE, order |-> order]

fetch_balance(ex) == [total |-> ex.balance]

fetch_positions(ex) ==
    IF is_none(ex.position) THEN <<>>
    ELSE <<[contracts |-> ex.position.amount,
            entryPrice |-> ex.position.entry_price,
            side |-> ex.position.side]>>

\* A cancel_all_orders that also drops the simulator's trade records.
cancel_all_orders_drops_records(ex) ==
    [ex EXCEPT !.position_history = <<ex.position_history[1]>>]

\* cancel_all_orders: "Do nothing."
cancel_all_orders(ex) == ex

\* What next() returns: None, or an index.
NoIndex == <<>>
Index(i) == <<i>>

\* A next() that hands out the index it had before moving.
next_returns_stale(ex) ==
    LET ex1 == [ex EXCEPT !.time_index = ex.time_index + 1]
    IN  [exchange |-> ex1,
         ret |-> IF ex1.time_index >= Len(ex1.historical_data) - 1
                 THEN NoIndex ELSE Index(ex.time_index)]

\* A next() that never returns None.
next_never_ends(ex) ==
    LET ex1 == [ex EXCEPT !.time_index = ex.time_index + 1]
    IN  [exchange |-> ex1, ret |-> Index(ex1.time_index)]

\* A next() that hands out the last row too: None only past the end.
next_to_last_row(ex) ==
    LET ex1 == [ex EXCEPT !.time_index = ex.time_index + 1]
    IN  [exchange |-> ex1,
         ret |-> IF ex1.time_index >= Len(ex1.historical_data)
                 THEN NoIndex ELSE Index(ex1.time_index)]

\* next(): the cursor moves first; None once it is at or past the last row.
next(ex) ==
    LET ex1 == [ex EXCEPT !.time_index = ex.time_index + 1]
    IN  [exchange |-> ex1,
         ret |-> IF ex1.time_index >= Len(ex1.historical_data) - 1
                 THEN NoIndex ELSE Index(ex1.time_index)]

(***************************************************************************)
(* fetcher.py and orderer.py, against the MockExchange.                    *)
(***************************************************************************)
\* The exchange methods a decision cycle reaches.
PortCalls ==
    {"fetch_positions", "cancel_all_orders", "fetch_balance", "create_order"}

\* A Fetcher and an Orderer that log the exception and carry on.
Raises_swallowed(call) == FALSE

\* try: self._exchange.<call>(...)  except Exception: log, then raise.
Raises(call) == fault = call

\* Fetcher.fetch_position: the Position handed in is overwritten either
\* way.  cancel_all_orders does nothing on the MockExchange.
\* A fetch_position that leaves the Position alone when nothing is open.
fetch_position_keep_when_flat(ex, my_position) ==
    LET positions == fetch_positions(ex)
    IN  IF positions = <<>>
        THEN my_position
        ELSE update(my_position, SideOf(positions[1].side),
                    positions[1].contracts, positions[1].entryPrice,
                    EmptyTime)

fetch_position(ex, my_position) ==
    LET positions == fetch_positions(ex)
    IN  IF positions = <<>>
        THEN update(my_position, None, 0, 0, EmptyTime)
        ELSE LET position == positions[1]
                 amount == position.contracts
                 entry_price == position.entryPrice
                 side == SideOf(position.side)
             IN  update(my_position, side, amount, entry_price, EmptyTime)

\* Fetcher.fetch_account_balance: account_info['total'][margin_asset]
fetch_account_balance(ex) == fetch_balance(ex).total

\* What one create_order call saw before and left behind.
Seen(ex) ==
    [balance |-> ex.balance, position |-> ex.position,
     trades |-> Len(ex.position_history) - 1]

\* Orderer.place_order: one create_order call; a failure is re-raised.
place_order(ex, side, amount, current_price) ==
    LET r == IF Raises("create_order")
             THEN [exchange |-> ex, raised |-> TRUE, order |-> None]
             ELSE create_order(ex, side, amount, current_price)
    IN  [exchange |-> r.exchange,
         raised |-> r.raised,
         calls |-> <<"create_order">>,
         orders |-> <<[side |-> side, amount |-> amount,
                       price |-> current_price, raised |-> r.raised,
                       order |-> r.order,
                       before |-> Seen(ex), after |-> Seen(r.exchange)]>>]

(***************************************************************************)
(* trader.py                                                               *)
(***************************************************************************)
Trader(cfg, position, strategy, symbol_info, historical, predicted) ==
    [config |-> cfg, position |-> position, strategy |-> strategy,
     symbol_info |-> symbol_info,
     historical_prices |-> historical,
     predicted_prices |-> predicted]

\* ndarray.item(i): a negative i counts from the end.
InRange(arr, i) == -Len(arr) <= i /\ i < Len(arr)
item(arr, i) == IF i >= 0 THEN arr[i + 1] ELSE arr[Len(arr) + i + 1]

\* Nothing submitted.
NoOrder(ex) ==
    [exchange |-> ex, raised |-> FALSE, calls |-> <<>>, orders |-> <<>>]

\* A call that raised before any order: the cycle ends there.
Failed(ex) ==
    [exchange |-> ex, raised |-> TRUE, calls |-> <<>>, orders |-> <<>>]

\* The calls made so far, then those of what followed.
After(calls, r) == [r EXCEPT !.calls = calls \o r.calls]

\* round((balance * LEVERAGE) / current_price, ndigits), in amount steps.
SizedAmount(tr, balance, current_price) ==
    round(balance * tr.config.LEVERAGE.num,
          tr.symbol_info.taker.den * tr.config.LEVERAGE.den * current_price)

\* amount < MIN_ORDER_AMOUNT, the amount in steps.
BelowMinimum(tr, amount) ==
    amount * tr.config.MIN_ORDER_AMOUNT.den
        < tr.config.MIN_ORDER_AMOUNT.num * tr.symbol_info.precision.amount.den

\* An _open_position without the MIN_ORDER_AMOUNT check.
open_position_unchecked(tr, ex, side, current_price) ==
    place_order(ex, side,
                SizedAmount(tr, fetch_account_balance(ex), current_price),
                current_price)

_open_position(tr, ex, side, current_price) ==
    LET balance == fetch_account_balance(ex)
        amount == SizedAmount(tr, balance, current_price)
    IN  After(<<"fetch_balance">>,
              IF Raises("fetch_balance")
              THEN Failed(ex)
              ELSE IF BelowMinimum(tr, amount)
                   THEN NoOrder(ex)
                   ELSE place_order(ex, side, amount, current_price))

\* An _open_position_if that buys when the forecast is below the price.
open_position_if_swapped(tr, ex, current_price, predicted_price) ==
    IF should_open_position(tr.strategy, current_price, predicted_price)
    THEN LET side == IF current_price < predicted_price THEN SELL ELSE BUY
         IN  _open_position(tr, ex, side, current_price)
    ELSE NoOrder(ex)

_open_position_if(tr, ex, current_price, predicted_price) ==
    IF should_open_position(tr.strategy, current_price, predicted_price)
    THEN LET side == IF current_price < predicted_price THEN BUY ELSE SELL
         IN  _open_position(tr, ex, side, current_price)
    ELSE NoOrder(ex)

\* A _close_position that sends the held side again.
close_position_same_side(tr, ex, current_price) ==
    place_order(ex, tr.position.side, tr.position.amount, current_price)

_close_position(tr, ex, current_price) ==
    LET side == inverse(tr.position)
        amount == tr.position.amount
    IN  place_order(ex, side, amount, current_price)

\* A _close_position_if that closes whatever the strategy answers.
close_position_if_held(tr, ex, current_price, predicted_price) ==
    _close_position(tr, ex, current_price)

_close_position_if(tr, ex, current_price, predicted_price) ==
    IF should_close_position(tr.strategy, tr.position, current_price,
                             predicted_price)
    THEN _close_position(tr, ex, current_price)
    ELSE NoOrder(ex)

\* The two branches run one after the other: a close, then an open.
Decide_close_then_open(tr, ex, current_price, predicted_price) ==
    LET c == IF is_none(tr.position) THEN NoOrder(ex)
             ELSE _close_position_if(tr, ex, current_price, predicted_price)
        o == IF c.raised THEN NoOrder(c.exchange)
             ELSE _open_position_if(tr, c.exchange, current_price,
                                    predicted_price)
    IN  [exchange |-> o.exchange, raised |-> c.raised \/ o.raised,
         calls |-> c.calls \o o.calls, orders |-> c.orders \o o.orders]

\* execute_trade, lines 85-88: open when flat, else close.
Decide(tr, ex, current_price, predicted_price) ==
    IF is_none(tr.position)
    THEN _open_position_if(tr, ex, current_price, predicted_price)
    ELSE _close_position_if(tr, ex, current_price, predicted_price)

\* What the strategy was asked in a cycle, and what it answered.
NotAsked == [question |-> "none", answer |-> FALSE]

Asked(tr, current_price, predicted_price) ==
    IF is_none(tr.position)
    THEN [question |-> "open",
          answer |-> should_open_position(tr.strategy, current_price,
                                          predicted_price)]
    ELSE [question |-> "close",
          answer |-> should_close_position(tr.strategy, tr.position,
                                           current_price, predicted_price)]

\* One decision cycle.  The refresh comes first; .item() raises IndexError
\* for an index outside the series, before anything is submitted.
\* A failing fetch_positions raises before the Position is touched; a
\* failing cancel_all_orders raises after update(None).
Undecided(tr, ex, calls) ==
    [trader |-> tr, exchange |-> ex, raised |-> TRUE, calls |-> calls,
     orders |-> <<>>, current_price |-> 0, predicted_price |-> 0,
     asked |-> NotAsked]

execute_trade(tr, ex, index) ==
    LET tr1 == [tr EXCEPT !.position = fetch_position(ex, tr.position)]
        flat == fetch_positions(ex) = <<>>
        fetched == IF flat THEN <<"fetch_positions", "cancel_all_orders">>
                   ELSE <<"fetch_positions">>
        ex1 == IF flat THEN cancel_all_orders(ex) ELSE ex
    IN  IF Raises("fetch_positions")
        THEN Undecided(tr, ex, <<"fetch_positions">>)
        ELSE IF flat /\ Raises("cancel_all_orders")
        THEN Undecided(tr1, ex, fetched)
        ELSE IF ~(InRange(tr.historical_prices, index)
                  /\ InRange(tr.predicted_prices, index))
        THEN Undecided(tr1, ex1, fetched)
        ELSE LET current_price == item(tr.historical_prices, index)
                 predicted_price == item(tr.predicted_prices, index)
                 d == Decide(tr1, ex1, current_price, predicted_price)
             IN  [trader |-> tr1, exchange |-> d.exchange,
                  raised |-> d.raised, calls |-> fetched \o d.calls,
                  orders |-> d.orders,
                  current_price |-> current_price,
                  predicted_price |-> predicted_price,
                  asked |-> Asked(tr1, current_price, predicted_price)]

(***************************************************************************)
(* MockExchange.pnl_analysis.  It reads _position_history and builds its   *)
(* own frame df, placeholder row first; nothing of the instance is         *)
(* written.  The report's values are format strings: each is given here as *)
(* the number the string shows, in units of its last digit.                *)
(***************************************************************************)
RatLess(a, b) == a.num * b.den < b.num * a.den

RECURSIVE SumIf(_, _, _)
\* The sum of f[i] over the i in 1..n with keep[i].
SumIf(f, keep, n) ==
    IF n = 0 THEN 0
    ELSE SumIf(f, keep, n - 1) + (IF keep[n] THEN f[n] ELSE 0)

RECURSIVE Fixed(_, _, _)
\* f'{x:.<digits>f}' for x = num / den (den > 0): x to that many decimals,
\* ties to even, counted in units of the last decimal.  One digit at a
\* time, as in long division.
Fixed(num, den, digits) ==
    IF digits = 0 THEN round(num, den)
    ELSE Floor(num, den) * 10 ^ digits
             + Fixed((num % den) * 10, den, digits - 1)

\* f'{x:.1%}': x as a percentage to one decimal, in tenths of a percent.
Percent(x) == Fixed(x.num * 100, x.den, 1)

\* {}
EmptyReport == <<>>

\* trade_count = len(df) - 1; the rows after the placeholder.
trade_count(df) == Len(df) - 1
TradeRows(df) == 2 .. Len(df)

\* A win_count that takes a return of zero for a win.
win_count_nonneg(df) ==
    Cardinality({i \in TradeRows(df) : df[i].return.num >= 0})

\* (df['return'] > 0.0).sum() and (df['return'] < 0.0).sum(); the
\* placeholder's return is None and compares False.
win_count(df) == Cardinality({i \in TradeRows(df) : df[i].return.num > 0})
lose_count(df) == Cardinality({i \in TradeRows(df) : df[i].return.num < 0})

\* pnl = df['balance'].diff().iloc[1:], in balance units.
pnl(df) == [i \in 1 .. trade_count(df) |-> df[i + 1].balance - df[i].balance]

\* An avg_loss taken over every trade, not the losing ones.
avg_loss_over_trades(df) ==
    IF lose_count(df) > 0
    THEN Rat(SumIf(pnl(df), [i \in 1 .. trade_count(df) |-> pnl(df)[i] < 0],
                   trade_count(df)), trade_count(df))
    ELSE Rat(0, 1)

\* pnl[pnl > 0.0].sum() / win_count if win_count > 0 else 0, and the same
\* for losses: the sums go by the sign of the balance change, the counts by
\* the sign of the return.
avg_profit(df) ==
    IF win_count(df) > 0
    THEN Rat(SumIf(pnl(df), [i \in 1 .. trade_count(df) |-> pnl(df)[i] > 0],
                   trade_count(df)), win_count(df))
    ELSE Rat(0, 1)

avg_loss(df) ==
    IF lose_count(df) > 0
    THEN Rat(SumIf(pnl(df), [i \in 1 .. trade_count(df) |-> pnl(df)[i] < 0],
                   trade_count(df)), lose_count(df))
    ELSE Rat(0, 1)

\* f'{pnl_ratio:.2f}' with pnl_ratio = avg_profit / -avg_loss if
\* avg_loss < 0 else inf; 'inf' is shown as such.
pnl_ratio(df) ==
    IF avg_loss(df).num < 0
    THEN [inf |-> FALSE,
          hundredths |-> Fixed(avg_profit(df).num * avg_loss(df).den,
                               avg_profit(df).den * (-avg_loss(df).num), 2)]
    ELSE [inf |-> TRUE, hundredths |-> 0]

\* df['return'].max() and .min(); the placeholder's None is skipped.
max_profit_rate(df) ==
    LET best == CHOOSE i \in TradeRows(df) :
                    \A j \in TradeRows(df) :
                        ~RatLess(df[i].return, df[j].return)
    IN  df[best].return

max_loss_rate(df) ==
    LET worst == CHOOSE i \in TradeRows(df) :
                     \A j \in TradeRows(df) :
                         ~RatLess(df[j].return, df[i].return)
    IN  df[worst].return

\* A final_balance read off the placeholder row.
final_balance_initial(df) == df[1].balance

\* final_balance = df['balance'].iloc[-1]: the balance the last closing
\* fill left, in balance units.
final_balance(df) == df[Len(df)].balance

\* The dict returned for a ledger with rows.
Report(ex) ==
    LET df == ex.position_history
    IN  ("Number of trades" :> trade_count(df))
        @@ ("Win rate" :> Percent(Rat(win_count(df), trade_count(df))))
        @@ ("P&L ratio" :> pnl_ratio(df))
        @@ ("Max profit rate (per trade)" :> Percent(max_profit_rate(df)))
        @@ ("Max loss rate (per trade)" :> Percent(max_loss_rate(df)))
        @@ ("Final balance" :> Fixed(final_balance(df),
                                     Unit(ex.symbol_info), 1))

\* A pnl_analysis that reports zero trades instead of returning {}.
pnl_analysis_zero_report(ex) ==
    IF trade_count(ex.position_history) = 0
    THEN ("Number of trades" :> 0) @@ ("Final balance" :> 0)
    ELSE Report(ex)

pnl_analysis(ex) ==
    IF trade_count(ex.position_history) = 0
    THEN EmptyReport
    ELSE Report(ex)

\* A pnl_analysis that takes the balance differences of line 187 in place,
\* in the rows of _position_history (the first trade's row is shown).
after_pnl_analysis_in_place(ex) ==
    IF trade_count(ex.position_history) = 0
    THEN ex
    ELSE [ex EXCEPT !.position_history[2].balance =
                        ex.position_history[2].balance
                            - ex.position_history[1].balance]

\* The instance once pnl_analysis has returned.  pd.DataFrame builds df
\* from copies of the rows; line 180 (df.loc[0, 'closeTime'] = ...), the
\* export and diff() work on df, and no field of self is assigned.
after_pnl_analysis(ex) == ex

(***************************************************************************)
(* The session: one configuration and one instrument, fixed at setup.      *)
(***************************************************************************)
Setups ==
    { [config |-> [THRESHOLD |-> Rat(1, 100), STOP_LOSS |-> Rat(1, 10),
                   LEVERAGE |-> Rat(2, 1), MIN_ORDER_AMOUNT |-> Rat(1, 1000),
                   WINDOW_SIZE |-> 1, MIN_REQUIRED_DATA |-> 1],
       symbol_info |-> [taker |-> Rat(1, 1000),
                        precision |-> [amount |-> Rat(1, 1)]]],
      [config |-> [THRESHOLD |-> Rat(1, 10), STOP_LOSS |-> Rat(1, 5),
                   LEVERAGE |-> Rat(1, 1), MIN_ORDER_AMOUNT |-> Rat(15, 1),
                   WINDOW_SIZE |-> 1, MIN_REQUIRED_DATA |-> 1],
       symbol_info |-> [taker |-> Rat(0, 1),
                        precision |-> [amount |-> Rat(1, 10)]]] }

\* What one step of a series may hold: <<closing price, forecast>>.
Steps == {<<100, 105>>, <<110, 105>>, <<50, 45>>, <<40, 45>>, <<100, 45>>}

\* The index of a frame of n rows: row i carries timestamp i.  With
\* WINDOW_SIZE = 1 and MIN_REQUIRED_DATA = 1 fetch_ohlcv keeps every fetched
\* row and fetch_historical_data drops the last one, so a replay starts
\* with a frame one row longer than the Trader's series and every index
\* next() returns is an index of both series.
Frame(n) == [i \in 1 .. n |-> i]

NoCycle ==
    [n |-> 0, index |-> NoIndex, raised |-> FALSE, calls |-> <<>>,
     orders |-> <<>>, previous |-> NewPosition,
     asked |-> NotAsked, current_price |-> 0, predicted_price |-> 0,
     position |-> NewPosition, before |-> Seen(MockExchange(
         [taker |-> Rat(0, 1), precision |-> [amount |-> Rat(1, 1)]], <<>>))]

\* create_trader: Position(), MyStrategy(THRESHOLD, STOP_LOSS), the series.
NewTrader(setup, historical_prices, predicted_prices) ==
    Trader(setup.config, NewPosition,
           MyStrategy(setup.config.THRESHOLD, setup.config.STOP_LOSS),
           setup.symbol_info, historical_prices, predicted_prices)

\* Fetcher.fetch_historical_data: np.array(total_data)[:-1, 1:] drops the
\* last fetched row, and raises IndexError when nothing was fetched (an
\* empty array has one axis only).
HistoricalRaises(rows) == rows = 0
HistoricalLen(rows) == rows - 1

\* A length check that lets every series through.
NotEnoughData_unchecked(cfg, rows) == FALSE

\* create_trader raises 'Not enough data for prediction' below
\* MIN_REQUIRED_DATA points; the Trader's series start at point
\* MIN_REQUIRED_DATA - 1.
NotEnoughData(cfg, rows) == HistoricalLen(rows) < cfg.MIN_REQUIRED_DATA
SeriesLen(cfg, rows) == HistoricalLen(rows) - (cfg.MIN_REQUIRED_DATA - 1)

\* MockExchange.fetch_ohlcv keeps the fetched rows from WINDOW_SIZE - 1 on;
\* with nothing fetched _historical_data is left as it was.
FrameLen(cfg, rows) ==
    IF rows > cfg.WINDOW_SIZE - 1 THEN rows - (cfg.WINDOW_SIZE - 1) ELSE 0

\* Simulator.__init__ with `rows` rows fetched at setup: create_trader
\* either raises, and there is no Trader and no replay, or hands back a
\* Trader over series drawn from `steps`.
Constructed(steps) ==
    \E setup \in Setups, rows \in 0 .. MaxSeries + 1 :
        LET n == SeriesLen(setup.config, rows)
            frame == Frame(FrameLen(setup.config, rows))
            failed == HistoricalRaises(rows)
                          \/ NotEnoughData(setup.config, rows)
        IN  /\ exchange = MockExchange(setup.symbol_info, frame)
            /\ time_index = NoIndex
            /\ fills = <<>>
            /\ cycle = NoCycle
            /\ last_call = [op |-> "init", n |-> 0, rows |-> rows]
            /\ fault = None
            /\ IF failed
               THEN /\ trader = NewTrader(setup, <<>>, <<>>)
                    /\ pc = "setup_failed"
               ELSE /\ \E series \in [1 .. n -> steps] :
                           trader = NewTrader(
                               setup, [i \in 1 .. n |-> series[i][1]],
                               [i \in 1 .. n |-> series[i][2]])
                    /\ pc = "run"

Init == Constructed(Steps)

\* Simulator.run, the loop condition: time_index := self._exchange.next()
Advance ==
    /\ pc = "run"
    /\ LET r == next(exchange)
       IN  /\ exchange' = r.exchange
           /\ time_index' = r.ret
           /\ pc' = IF r.ret = NoIndex THEN "evaluate" ELSE "trade"
           /\ last_call' = [op |-> "next", n |-> last_call.n + 1]
    /\ UNCHANGED <<trader, fills, cycle, fault>>

\* Simulator.run, the loop body: self._trader.execute_trade(time_index)
ExecuteTrade ==
    /\ pc = "trade"
    /\ \E r \in {execute_trade(trader, exchange, time_index[1])} :
           /\ trader' = r.trader
           /\ exchange' = r.exchange
           /\ fills' = fills \o r.orders
           /\ cycle' = [n |-> cycle.n + 1, index |-> time_index,
                        raised |-> r.raised, calls |-> r.calls,
                        orders |-> r.orders, previous |-> trader.position,
                        asked |-> r.asked,
                        current_price |-> r.current_price,
                        predicted_price |-> r.predicted_price,
                        position |-> r.trader.position,
                        before |-> Seen(exchange)]
           /\ pc' = IF r.raised THEN "failed" ELSE "run"
           /\ last_call' = [op |-> "execute_trade", n |-> last_call.n + 1]
    /\ UNCHANGED <<time_index, fault>>

\* Simulator.evaluate
Evaluate ==
    /\ pc = "evaluate"
    /\ pc' = "done"
    /\ last_call' = [op |-> "pnl_analysis", n |-> last_call.n + 1,
                     ret |-> pnl_analysis(exchange)]
    /\ exchange' = after_pnl_analysis(exchange)
    /\ UNCHANGED <<trader, time_index, fills, cycle, fault>>

Next == Advance \/ ExecuteTrade \/ Evaluate

Spec == Init /\ [][Next]_vars

\* The replay is one sequential loop: a step that can be taken is taken.
\* Termination is checked over series drawn from three of the steps.
LoopSteps == {<<100, 105>>, <<110, 105>>, <<50, 45>>}

FairInit == Constructed(LoopSteps)

FairSpec == FairInit /\ [][Next]_vars /\ WF_vars(Next)

(***************************************************************************)
(* The replay over configurations with a window above 1.  The Trader's     *)
(* historical series is the fetched data less its last row, from point     *)
(* MIN_REQUIRED_DATA - 1 on; its forecasts are what Predictor makes of the *)
(* same data.                                                              *)
(***************************************************************************)
\* <<WINDOW_SIZE, MIN_REQUIRED_DATA>>: the forecaster needs 2 * W - 1
\* points for its first forecast.
Windows == {<<1, 1>>, <<2, 3>>}

WindowSetups ==
    {[setup EXCEPT !.config.WINDOW_SIZE = w[1],
                   !.config.MIN_REQUIRED_DATA = w[2]] :
        setup \in Setups, w \in Windows}

\* Predictor.preprocess builds window_count = len(data) - window_size + 1
\* windows, the model answers each with one value, and Predictor.predict
\* drops the first window_size - 1 of them.
PredictedLen(cfg, rows) ==
    LET window_count == HistoricalLen(rows) - cfg.WINDOW_SIZE + 1
        kept == window_count - (cfg.WINDOW_SIZE - 1)
    IN  IF kept > 0 THEN kept ELSE 0

WindowInit ==
    \E setup \in WindowSetups, rows \in 0 .. MaxSeries + 1 :
        LET n == SeriesLen(setup.config, rows)
            m == PredictedLen(setup.config, rows)
            frame == Frame(FrameLen(setup.config, rows))
            failed == HistoricalRaises(rows)
                          \/ NotEnoughData(setup.config, rows)
        IN  /\ exchange = MockExchange(setup.symbol_info, frame)
            /\ time_index = NoIndex
            /\ fills = <<>>
            /\ cycle = NoCycle
            /\ last_call = [op |-> "init", n |-> 0, rows |-> rows]
            /\ fault = None
            /\ IF failed
               THEN /\ trader = NewTrader(setup, <<>>, <<>>)
                    /\ pc = "setup_failed"
               ELSE /\ \E series \in [1 .. (IF n > m THEN n ELSE m)
                                          -> LoopSteps] :
                           trader = NewTrader(
                               setup, [i \in 1 .. n |-> series[i][1]],
                               [i \in 1 .. m |-> series[i][2]])
                    /\ pc = "run"

WindowSpec == WindowInit /\ [][Next]_vars

(***************************************************************************)
(* The simulator driven directly through its port, in any order.           *)
(***************************************************************************)
\* Amounts (in steps) and prices a direct order may carry.
OrderAmounts == {1, 2}
OrderPrices == {100, 110}

PortInit ==
    \E setup \in Setups :
        /\ exchange = MockExchange(setup.symbol_info,
                                   Frame((MaxCalls + 1) \div 2))
        /\ trader = NewTrader(setup, <<>>, <<>>)
        /\ pc = "port"
        /\ time_index = NoIndex
        /\ fills = <<>>
        /\ cycle = NoCycle
        /\ last_call = [op |-> "init", n |-> 0]
        /\ fault = None

\* submit_order: Orderer.place_order -> MockExchange.create_order
SubmitOrder ==
    /\ pc = "port"
    /\ last_call.n < MaxCalls
    /\ \E side \in Side, amount \in OrderAmounts, price \in OrderPrices :
        LET r == place_order(exchange, side, amount, price)
        IN  /\ exchange' = r.exchange
            /\ fills' = fills \o r.orders
            /\ last_call' = [op |-> "create_order", n |-> last_call.n + 1]
    /\ UNCHANGED <<trader, pc, time_index, cycle, fault>>

\* advance: MockExchange.next
PortAdvance ==
    /\ pc = "port"
    /\ last_call.n < MaxCalls
    /\ LET r == next(exchange)
       IN  /\ exchange' = r.exchange
           /\ time_index' = r.ret
           /\ last_call' = [op |-> "next", n |-> last_call.n + 1]
    /\ UNCHANGED <<trader, pc, fills, cycle, fault>>

\* fetch_position: Fetcher.fetch_position -> MockExchange.fetch_positions
FetchPosition ==
    /\ pc = "port"
    /\ trader' = [trader EXCEPT
                     !.position = fetch_position(exchange, trader.position)]
    /\ exchange' = IF fetch_positions(exchange) = <<>>
                   THEN cancel_all_orders(exchange) ELSE exchange
    /\ last_call' = [op |-> "fetch_positions", n |-> last_call.n]
    /\ UNCHANGED <<pc, time_index, fills, cycle, fault>>

\* fetch_account_balance: Fetcher -> MockExchange.fetch_balance
FetchAccountBalance ==
    /\ pc = "port"
    /\ last_call' = [op |-> "fetch_balance", n |-> last_call.n,
                     ret |-> fetch_account_balance(exchange)]
    /\ UNCHANGED <<exchange, trader, pc, time_index, fills, cycle, fault>>

\* performance_report: MockExchange.pnl_analysis
PerformanceReport ==
    /\ pc = "port"
    /\ last_call' = [op |-> "pnl_analysis", n |-> last_call.n,
                     ret |-> pnl_analysis(exchange)]
    /\ exchange' = after_pnl_analysis(exchange)
    /\ UNCHANGED <<trader, pc, time_index, fills, cycle, fault>>

PortNext ==
    \/ SubmitOrder
    \/ PortAdvance
    \/ FetchPosition
    \/ FetchAccountBalance
    \/ PerformanceReport

PortSpec == PortInit /\ [][PortNext]_vars

(***************************************************************************)
(* One live invocation: lambda_handler builds a Trader and runs a single   *)
(* cycle at the default index -1, the latest step.  Of the exchange only   *)
(* what it reports and the call it fails on matter; the simulator's record *)
(* stands in for it.                                                       *)
(***************************************************************************)
\* What the exchange may report as held.
Reported ==
    {NewPosition, Position(BUY, 3, 100, EmptyTime),
     Position(SELL, 3, 50, EmptyTime)}

\* The exchange methods create_trader reaches through the Fetcher
\* (fetch_symbol_info, fetch_historical_data) before a Trader exists.
SetupCalls == {"load_markets", "fetch_ohlcv"}

\* What a failing exchange call raises: ccxt.NetworkError, or
\* ccxt.ExchangeError for an error the API answers with.
ErrorClasses == {"NetworkError", "ExchangeError"}

\* What lambda_handler ends with: an exception raised to the scheduler, or
\* a returned dict with its statusCode (0: nothing is returned).
Raised(error) == [raises |-> error, statusCode |-> 0]
Returned(statusCode) == [raises |-> None, statusCode |-> statusCode]

\* A handler with no except clause: whatever is raised goes to the caller.
lambda_handler_reraises_all(raised, error) ==
    IF raised THEN Raised(error) ELSE Returned(200)

\* lambda_handler's try statement: `except ccxt.NetworkError: raise`, then
\* `except Exception` logs and returns statusCode 500.
lambda_handler(raised, error) ==
    IF ~raised THEN Returned(200)
    ELSE IF error = "NetworkError" THEN Raised(error)
    ELSE Returned(500)

LiveInit ==
    \E setup \in Setups, step \in Steps, reported \in Reported,
       failing \in SetupCalls \cup PortCalls \cup {None},
       error \in ErrorClasses \cup {None} :
        /\ (failing = None) <=> (error = None)
        /\ exchange = [MockExchange(setup.symbol_info, Frame(2))
                          EXCEPT !.position = reported]
        /\ trader = NewTrader(setup, <<step[1]>>, <<step[2]>>)
        /\ pc = "live"
        /\ time_index = NoIndex
        /\ fills = <<>>
        /\ cycle = NoCycle
        /\ last_call = [op |-> "init", n |-> 0, error |-> error]
        /\ fault = failing

\* lambda_handler: create_trader, then trader.execute_trade().  A setup
\* call that raises ends the handler before there is a Trader.
LiveCycle ==
    /\ pc = "live"
    /\ IF \E call \in SetupCalls : Raises(call)
       THEN /\ pc' = "failed"
            /\ last_call' =
                   [op |-> "lambda_handler", n |-> last_call.n + 1,
                    error |-> last_call.error,
                    ret |-> lambda_handler(TRUE, last_call.error)]
            /\ UNCHANGED <<trader, exchange, fills, cycle>>
       ELSE LET r == execute_trade(trader, exchange, -1)
            IN  /\ trader' = r.trader
                /\ exchange' = r.exchange
                /\ fills' = fills \o r.orders
                /\ cycle' = [n |-> cycle.n + 1, index |-> Index(-1),
                             raised |-> r.raised, calls |-> r.calls,
                             orders |-> r.orders,
                             previous |-> trader.position,
                             asked |-> r.asked,
                             current_price |-> r.current_price,
                             predicted_price |-> r.predicted_price,
                             position |-> r.trader.position,
                             before |-> Seen(exchange)]
                /\ pc' = IF r.raised THEN "failed" ELSE "done"
                /\ last_call' =
                       [op |-> "lambda_handler", n |-> last_call.n + 1,
                        error |-> last_call.error,
                        ret |-> lambda_handler(r.raised, last_call.error)]
    /\ UNCHANGED <<time_index, fault>>

LiveNext == LiveCycle

LiveSpec == LiveInit /\ [][LiveNext]_vars

(***************************************************************************)
(* Properties.                                                             *)
(***************************************************************************)
Mirror(ex) == IF is_none(ex.position) THEN "FLAT" ELSE "OPEN"

\* The rows of the ledger: _position_history without its placeholder row.
Ledger(ex) == SubSeq(ex.position_history, 2, Len(ex.position_history))

\* A fill that found the mirror flat and left it open, and the reverse.
Opened(f) == f.before.position.side = None /\ f.after.position.side # None
Closed(f) == f.before.position.side # None /\ f.after.position.side = None

\* C1 (initial state): the mirror starts FLAT and the balance is the
\* configured starting balance.
MirrorStartsFlat ==
    /\ Mirror(exchange) = "FLAT"
    /\ exchange.position = NewPosition
    /\ exchange.balance = INITIAL_BALANCE * Unit(exchange.symbol_info)

\* C1 (states): the mirror is FLAT, holding nothing, or OPEN with one
\* position of a side, LONG or SHORT.
MirrorFlatOrOpen ==
    \/ Mirror(exchange) = "FLAT" /\ exchange.position.amount = 0
    \/ Mirror(exchange) = "OPEN" /\ exchange.position.side \in Side

\* C1 (transitions): whenever the mirror changes, it goes FLAT -> OPEN or
\* OPEN -> FLAT, and the step is one create_order call; next, the fetches
\* and pnl_analysis leave it alone.
MirrorStep ==
    exchange'.position # exchange.position =>
        /\ Mirror(exchange') # Mirror(exchange)
        /\ last_call'.op = "create_order"
        /\ Len(fills') = Len(fills) + 1

\* C1: over any sequence of create_order, next, fetch and pnl_analysis
\* calls the simulator's position mirror starts FLAT with the starting
\* balance, is always FLAT or OPEN with one position, and changes only
\* FLAT -> OPEN or OPEN -> FLAT, each change made by exactly one
\* create_order.
C1_MirrorStateMachine ==
    MirrorStartsFlat /\ []MirrorFlatOrOpen /\ [][MirrorStep]_vars

\* C1 witness: FLAT -> OPEN -> FLAT -> OPEN has happened.
C1_Witness ==
    /\ pc = "port"
    /\ Len(fills) = 3
    /\ Opened(fills[1]) /\ Closed(fills[2]) /\ Opened(fills[3])
    /\ Mirror(exchange) = "OPEN"

\* C2: every execute_trade call submits at most one order; a cycle never
\* closes a position and opens one.
C2_AtMostOneOrderPerCycle ==
    cycle.n > 0 => Len(cycle.orders) <= 1

\* C2 witness: a cycle closed the position at prices for which the strategy
\* would open one, and submitted the closing order only.
C2_Witness ==
    /\ cycle.n > 0
    /\ cycle.asked.question = "close" /\ cycle.asked.answer
    /\ should_open_position(trader.strategy, cycle.current_price,
                            cycle.predicted_price)
    /\ ~BelowMinimum(trader, SizedAmount(trader, exchange.balance,
                                         cycle.current_price))
    /\ Len(cycle.orders) = 1

\* The Position invariant, for one Position.
PositionConsistent(p) ==
    /\ is_none(p) <=> p.side = None
    /\ ~is_none(p) <=> (is_long(p) \/ is_short(p))
    /\ is_none(p) => p.amount = 0

\* C3: for the Trader's Position and for the simulator's mirror, is_none()
\* is true exactly when side is none, and a flat position has amount 0.
C3_PositionConsistent ==
    PositionConsistent(trader.position) /\ PositionConsistent(exchange.position)

\* C3 witness: a position was opened and closed, and the Trader's Position
\* was then refreshed to flat.
C3_Witness ==
    /\ cycle.n = 3
    /\ Len(fills) >= 2 /\ Closed(fills[2])
    /\ cycle.before.position.side = None
    /\ is_none(trader.position) /\ is_none(exchange.position)

\* Forecast values the stop-loss statement is tried on.
Forecasts == 0 .. 120

\* current is beyond the stop-loss bound of position p.
BeyondStop(p, current_price) ==
    LET sl == trader.config.STOP_LOSS
    IN  \/ /\ p.side = BUY
           /\ current_price * sl.den < p.entry_price * (sl.den - sl.num)
        \/ /\ p.side = SELL
           /\ current_price * sl.den > p.entry_price * (sl.den + sl.num)

\* C4: should_close_position is true for a LONG exactly when forecast <
\* current or current < entry * (1 - STOP_LOSS), for a SHORT exactly when
\* forecast > current or current > entry * (1 + STOP_LOSS); beyond the
\* stop-loss bound it is true for every forecast.
C4_ShouldClose ==
    cycle.asked.question = "close" =>
        LET p == cycle.position
            c == cycle.current_price
        IN  /\ p.side \in Side
            /\ cycle.asked.answer <=>
                \/ p.side = BUY /\ cycle.predicted_price < c
                \/ p.side = SELL /\ cycle.predicted_price > c
                \/ BeyondStop(p, c)
            /\ BeyondStop(p, c) =>
                \A f \in Forecasts :
                    should_close_position(trader.strategy, p, c, f)

\* C4 witness: a LONG is closed by the stop-loss alone, the forecast still
\* above the current price.
C4_Witness ==
    /\ cycle.asked.question = "close" /\ cycle.asked.answer
    /\ cycle.position.side = BUY
    /\ cycle.predicted_price > cycle.current_price
    /\ BeyondStop(cycle.position, cycle.current_price)
    /\ Len(cycle.orders) = 1

\* Changes the symmetry statement is tried on.
Changes == 0 .. 30

\* C5: should_open_position(c, f) is true exactly when |(f - c) / c| >
\* THRESHOLD, and so it is the same for a change of +d and of -d.
C5_ShouldOpen ==
    cycle.asked.question = "open" =>
        LET c == cycle.current_price
            t == trader.config.THRESHOLD
        IN  /\ c > 0
            /\ cycle.asked.answer <=>
                Abs(cycle.predicted_price - c) * t.den > t.num * c
            /\ \A d \in Changes :
                should_open_position(trader.strategy, c, c + d)
                    <=> should_open_position(trader.strategy, c, c - d)

\* C5 witness: a forecast below the current price by more than THRESHOLD
\* opens.
C5_Witness ==
    /\ cycle.asked.question = "open" /\ cycle.asked.answer
    /\ cycle.predicted_price < cycle.current_price
    /\ Len(cycle.orders) = 1

\* The balance change create_order owes for one fill, as the claim states
\* it: -sign(side) * amount * price * (1 + taker_fee).  With the amount in
\* steps and both balances in 1 / Unit, both sides are multiplied out.
ChargedExactly(f, symbol_info) ==
    LET fee == symbol_info.taker
        steps == symbol_info.precision.amount.den
        s == IF f.side = BUY THEN 1 ELSE -1
    IN  (f.after.balance - f.before.balance) * steps * fee.den
            = -s * f.amount * f.price * (fee.den + fee.num)
                * Unit(symbol_info)

\* C6: every create_order, opening or closing, changes the balance by
\* exactly -sign(side) * amount * price * (1 + taker_fee).
C6_BalanceCharge ==
    \A i \in 1 .. Len(fills) :
        /\ fills[i].side \in Side
        /\ ChargedExactly(fills[i], exchange.symbol_info)

\* C6 witness: with a fee above 0, a buy that opens and a sell that closes
\* have been charged.
C6_Witness ==
    /\ pc = "port"
    /\ exchange.symbol_info.taker.num > 0
    /\ Len(fills) >= 2
    /\ Opened(fills[1]) /\ fills[1].side = BUY
    /\ Closed(fills[2]) /\ fills[2].side = SELL
    /\ fills[2].after.balance > fills[2].before.balance

\* The return rate a row records is r, given as a fraction n / d.
RateIs(row, n, d) == row.return.num * d = n * row.return.den

\* C7: a row's return rate is (close - entry) / entry for a held LONG and
\* (entry - close) / entry for a held SHORT, so it is positive exactly when
\* the held side gained: LONG 100 -> 110 records 0.10, SHORT 50 -> 40
\* records 0.20.
C7_ReturnRate ==
    \A i \in 1 .. Len(Ledger(exchange)) :
        LET row == Ledger(exchange)[i]
            gain == IF row.side = BUY THEN row.closePrice - row.entryPrice
                    ELSE row.entryPrice - row.closePrice
        IN  /\ row.side \in Side
            /\ row.entryPrice > 0 /\ row.return.den > 0
            /\ RateIs(row, gain, row.entryPrice)
            /\ row.return.num > 0 <=> gain > 0
            /\ (row.side = BUY /\ row.entryPrice = 100 /\ row.closePrice = 110)
                    => RateIs(row, 10, 100)
            /\ (row.side = SELL /\ row.entryPrice = 50 /\ row.closePrice = 40)
                    => RateIs(row, 20, 100)

\* C7 witness: the ledger holds a LONG 100 -> 110 and a SHORT 50 -> 40.
C7_Witness ==
    /\ Len(Ledger(exchange)) = 2
    /\ \E i, j \in 1 .. 2 :
        /\ Ledger(exchange)[i].side = BUY
        /\ Ledger(exchange)[i].entryPrice = 100
        /\ Ledger(exchange)[i].closePrice = 110
        /\ Ledger(exchange)[j].side = SELL
        /\ Ledger(exchange)[j].entryPrice = 50
        /\ Ledger(exchange)[j].closePrice = 40

\* C8 (steps): the ledger grows only by one row, in a create_order call
\* that takes the mirror from OPEN to FLAT; and every step that takes the
\* mirror from OPEN to FLAT adds one row.
LedgerStep ==
    LET grew == Len(exchange'.position_history)
                    # Len(exchange.position_history)
        closed == Mirror(exchange) = "OPEN" /\ Mirror(exchange') = "FLAT"
    IN  /\ grew <=> closed
        /\ grew =>
            /\ Len(exchange'.position_history)
                    = Len(exchange.position_history) + 1
            /\ last_call'.op = "create_order"
            /\ Len(fills') = Len(fills) + 1

\* C8 (count): there are as many rows as OPEN -> FLAT fills; a position
\* still open has no row.
LedgerCount ==
    LET n == Len(fills)
    IN  /\ Len(Ledger(exchange))
                = Cardinality({i \in 1 .. n : Closed(fills[i])})
        /\ Cardinality({i \in 1 .. n : Opened(fills[i])})
                = Len(Ledger(exchange))
                    + (IF Mirror(exchange) = "OPEN" THEN 1 ELSE 0)
        /\ \A i \in 1 .. n :
                Opened(fills[i]) =>
                    fills[i].after.trades = fills[i].before.trades

\* C8: a TradeRecord is appended exactly when a create_order moves the
\* mirror from OPEN to FLAT; an opening fill and every other operation
\* append nothing, and the records number the OPEN -> FLAT transitions.
C8_LedgerRows == []LedgerCount /\ [][LedgerStep]_vars

\* C8 witness: one round trip is on the ledger and a second position is
\* open, with no row of its own.
C8_Witness ==
    /\ pc = "port"
    /\ Len(fills) = 3 /\ Opened(fills[3])
    /\ Len(Ledger(exchange)) = 1
    /\ Mirror(exchange) = "OPEN"

\* amount (in steps) is not below MIN_ORDER_AMOUNT.
AtLeastMinimum(amount) ==
    amount * trader.config.MIN_ORDER_AMOUNT.den
        >= trader.config.MIN_ORDER_AMOUNT.num
            * trader.symbol_info.precision.amount.den

\* C9: when the amount sized for a new position is below MIN_ORDER_AMOUNT
\* the cycle submits nothing and raises nothing, and no order that opens a
\* position carries an amount below MIN_ORDER_AMOUNT.
C9_SizingFloor ==
    /\ \A i \in 1 .. Len(fills) :
        fills[i].before.position.side = None => AtLeastMinimum(fills[i].amount)
    /\ ( /\ cycle.asked.question = "open" /\ cycle.asked.answer
         /\ ~AtLeastMinimum(SizedAmount(trader, cycle.before.balance,
                                        cycle.current_price)) )
            => cycle.orders = <<>> /\ ~cycle.raised /\ pc # "failed"

\* C9 witness: the strategy asked to open, the sized amount was below the
\* floor, and the cycle ended with no order.
C9_Witness ==
    /\ cycle.asked.question = "open" /\ cycle.asked.answer
    /\ ~AtLeastMinimum(SizedAmount(trader, cycle.before.balance,
                                   cycle.current_price))
    /\ cycle.orders = <<>>
    /\ pc = "run"

\* The fill that opened the position fill i closed: the latest opening
\* fill before i.
OpenerOf(i) ==
    CHOOSE j \in 1 .. i - 1 :
        /\ Opened(fills[j])
        /\ \A k \in j + 1 .. i - 1 : ~Opened(fills[k])

\* C10: a cycle that decides to close submits one order, on the side
\* opposite to the held one and for the full held amount; so every
\* TradeRecord's amount is the amount of the fill that opened the position
\* and the closing fill's side is the inverse of the record's side.
C10_CloseInverseFull ==
    /\ (cycle.asked.question = "close" /\ cycle.asked.answer) =>
        /\ Len(cycle.orders) = 1
        /\ cycle.orders[1].side \in Side \ {cycle.before.position.side}
        /\ cycle.orders[1].amount = cycle.before.position.amount
        /\ cycle.before.position.amount > 0
    /\ \A i \in 1 .. Len(fills) :
        Closed(fills[i]) =>
            LET row == exchange.position_history[fills[i].after.trades + 1]
                opener == fills[OpenerOf(i)]
            IN  /\ \E j \in 1 .. i - 1 : Opened(fills[j])
                /\ row.side = opener.side
                /\ row.amount = opener.amount
                /\ fills[i].amount = opener.amount
                /\ fills[i].side \in Side \ {row.side}

\* C10 witness: a SHORT was closed by a cycle, with a buy of the held
\* amount.
C10_Witness ==
    /\ cycle.asked.question = "close" /\ cycle.asked.answer
    /\ cycle.before.position.side = SELL
    /\ Len(cycle.orders) = 1 /\ cycle.orders[1].side = BUY
    /\ Closed(cycle.orders[1])
    /\ Len(Ledger(exchange)) >= 1

\* C11: a cycle that starts flat opens only when should_open_position holds
\* for the prices at its time index; the opening order is a BUY (long) if
\* the current price is below the forecast and a SELL (short) otherwise,
\* and its price is the current price at that index.
OpensAsForecast(c) ==
    LET current_price == item(trader.historical_prices, c.index[1])
        predicted_price == item(trader.predicted_prices, c.index[1])
    IN  /\ Len(c.orders) = 1
        /\ should_open_position(trader.strategy, current_price,
                                predicted_price)
        /\ c.orders[1].side = (IF current_price < predicted_price
                               THEN BUY ELSE SELL)
        /\ c.orders[1].price = current_price

C11_OpeningOrder ==
    (cycle.n > 0 /\ is_none(cycle.before.position) /\ cycle.orders # <<>>)
        => OpensAsForecast(cycle)

\* A second opening in one replay, this one short.
C11_Witness ==
    /\ cycle.n = 3
    /\ is_none(cycle.before.position)
    /\ cycle.orders # <<>>
    /\ cycle.orders[1].side = SELL
    /\ cycle.orders[1].after.position.side = SELL

\* C12: the refresh at the start of a cycle overwrites the Trader's Position
\* with what the port reports, whatever it held before: side none and
\* amount 0 when nothing is open, else the reported side, amount and entry
\* price.  In a replay the refreshed Position therefore agrees with the
\* mirror, as it stood when the cycle began, on side, amount and entry
\* price.
Refreshed(position, mirror) ==
    /\ position.side = mirror.side
    /\ position.amount = mirror.amount
    /\ position.entry_price = mirror.entry_price
    /\ is_none(mirror) => (position.side = None /\ position.amount = 0)

RefreshStep ==
    (pc = "trade" /\ pc' # "trade")
        => /\ Refreshed(trader'.position, exchange.position)
           /\ cycle'.position = trader'.position

C12_RefreshOverwrites == [][RefreshStep]_vars

\* A Trader whose Position went open, flat and open again by refreshes.
C12_Witness ==
    /\ cycle.n = 4
    /\ Len(Ledger(exchange)) >= 1
    /\ cycle.before.position.side = BUY
    /\ trader.position.side = BUY
    /\ trader.position.amount = cycle.before.position.amount
    /\ trader.position.entry_price = cycle.before.position.entry_price

\* C13: when a port call of a cycle fails, execute_trade ends with that
\* failure: the failing call is made once and is the last call of the
\* cycle.  A failed position fetch leaves the Trader's Position as it was
\* and submits no order; a failed balance fetch submits no order.
Occurrences(calls, call) ==
    Cardinality({i \in 1 .. Len(calls) : calls[i] = call})

FailureEndsCycle(c) ==
    /\ c.raised
    /\ pc = "failed"
    /\ c.calls[Len(c.calls)] = fault
    /\ Occurrences(c.calls, fault) = 1
    /\ Len(c.orders) = Occurrences(c.calls, "create_order")
    /\ fault = "fetch_positions"
           => c.calls = <<"fetch_positions">> /\ trader.position = c.previous
    /\ fault \in {"fetch_positions", "cancel_all_orders"}
           => /\ trader.position.side = c.previous.side
              /\ trader.position.amount = c.previous.amount
              /\ trader.position.entry_price = c.previous.entry_price
              /\ c.orders = <<>>
    /\ fault = "fetch_balance" => c.orders = <<>>
    /\ fault = "create_order"
           => Len(c.orders) = 1 /\ c.orders[1].after = c.orders[1].before

C13_FailurePropagates ==
    (cycle.n > 0 /\ Occurrences(cycle.calls, fault) > 0)
        => FailureEndsCycle(cycle)

\* The balance fetch of an opening fails, after the position fetch went
\* through.
C13_Witness ==
    /\ cycle.n = 1
    /\ fault = "fetch_balance"
    /\ cycle.raised
    /\ cycle.calls = <<"fetch_positions", "cancel_all_orders", "fetch_balance">>
    /\ cycle.asked.question = "open"
    /\ cycle.asked.answer

\* C15: in a replay the Trader runs exactly once for each index next()
\* returns, with that index, so the k-th cycle has index k - 1; it never
\* runs after next() has returned None, and pnl_analysis is asked for only
\* after that.
LoopOrder ==
    /\ cycle.n > 0 => cycle.index = Index(cycle.n - 1)
    /\ pc = "run" => cycle.n = exchange.time_index + 1
    /\ pc = "trade" => /\ time_index = Index(exchange.time_index)
                       /\ cycle.n = exchange.time_index
    /\ pc \in {"evaluate", "done"} => /\ time_index = NoIndex
                                      /\ cycle.n = exchange.time_index
    /\ last_call.op = "pnl_analysis" => pc = "done" /\ time_index = NoIndex

LoopStep ==
    /\ cycle' # cycle => /\ pc = "trade"
                         /\ time_index # NoIndex
                         /\ cycle'.index = time_index
                         /\ cycle'.n = cycle.n + 1
    /\ (time_index = NoIndex /\ exchange.time_index >= 0) => cycle' = cycle
    /\ last_call'.op = "pnl_analysis" => time_index = NoIndex

C15_ReplayOrder == []LoopOrder /\ [][LoopStep]_vars

\* A replay of three cycles that went on to its report.
C15_Witness ==
    /\ pc = "done"
    /\ last_call.op = "pnl_analysis"
    /\ cycle.n = 3
    /\ cycle.index = Index(2)
    /\ exchange.time_index = 3

\* C16: every replay over a finite series gets None from next() and leaves
\* the loop, and it never runs more cycles than the series has steps.
Stopped == pc \in {"evaluate", "done"} /\ time_index = NoIndex

CyclesBounded ==
    /\ cycle.n <= Len(trader.historical_prices)
    /\ cycle.n > 0 => cycle.n < Len(exchange.historical_data)

C16_ReplayTerminates == (pc = "run" ~> Stopped) /\ []CyclesBounded

\* The loop left after as many cycles as the series has steps.
C16_Witness ==
    /\ Stopped
    /\ Len(trader.historical_prices) >= 3
    /\ cycle.n = Len(trader.historical_prices)

\* A step that is one next() call made straight on the simulator.
IsNext == last_call'.op = "next" /\ last_call'.n = last_call.n + 1

\* What every next() call does, whatever `exhausted` is taken to mean: the
\* cursor moves on by one, None comes back exactly when the series is
\* exhausted at the new cursor and the new cursor otherwise, and after one
\* None every later call returns None.
AdvanceStep(exhausted) ==
    IsNext =>
        /\ exchange'.time_index = exchange.time_index + 1
        /\ time_index' = (IF exhausted THEN NoIndex
                          ELSE Index(exchange'.time_index))
        /\ (exchange.time_index >= 0 /\ time_index = NoIndex)
               => time_index' = NoIndex

\* C17 as claimed: exhausted means the series has no step at the new
\* cursor.
C17_AdvanceAsClaimed ==
    [][AdvanceStep(exchange'.time_index >= Len(exchange.historical_data))]_vars

\* C17, amended: exhausted means the series has no step after the new
\* cursor, so the last row is never handed out: next() returns the new
\* cursor while it is below len - 1 and None from len - 1 on.
C17_Advance ==
    [][AdvanceStep(exchange'.time_index
                       >= Len(exchange.historical_data) - 1)]_vars

\* Three calls on a frame of two rows: index 0, then None at the last row,
\* then None again.
C17_Witness ==
    /\ pc = "port"
    /\ last_call.op = "next"
    /\ last_call.n = 3
    /\ Len(exchange.historical_data) = 2
    /\ exchange.time_index = 2
    /\ time_index = NoIndex

\* No create_order call so far closed a position.
NoTradeClosed == \A i \in 1 .. Len(fills) : ~Closed(fills[i])

\* A replay that closed no trade gets through its cycles without an error
\* and its report is the empty one.
NoTradeReport ==
    /\ pc # "failed"
    /\ (pc = "done" /\ NoTradeClosed) => last_call.ret = EmptyReport

\* Setup was handed an empty historical series and raised.
EmptySeriesRejected ==
    pc = "setup_failed" /\ last_call.op = "init" /\ last_call.rows = 0

\* C18 as claimed: a replay that closes no trade completes without error
\* with the empty report, and so does a replay over an empty historical
\* series.
C18_AsClaimed == NoTradeReport /\ ~EmptySeriesRejected

\* C18, amended: a replay that closes no trade completes without error with
\* the empty report; with an empty historical series there is no replay,
\* setup raises before a Trader exists.
C18_NoTradeReport ==
    /\ NoTradeReport
    /\ (last_call.op = "init" /\ last_call.rows = 0) => EmptySeriesRejected
    /\ pc = "setup_failed" => (cycle.n = 0 /\ fills = <<>>)

\* A replay that opened a position, never closed it, and reported.
C18_Witness ==
    /\ pc = "done"
    /\ NoTradeClosed
    /\ Len(fills) = 1
    /\ cycle.n >= 2
    /\ last_call.ret = EmptyReport

\* The return rates of the ledger's rows, and how many create_order calls
\* closed a position.
Returns(ex) == [i \in 1 .. Len(Ledger(ex)) |-> Ledger(ex)[i].return]
ClosedFills == Cardinality({i \in 1 .. Len(fills) : Closed(fills[i])})

\* x is the largest of the rates (least = FALSE), or the smallest.
Extreme(x, rates, least) ==
    /\ \E i \in 1 .. Len(rates) : rates[i] = x
    /\ \A i \in 1 .. Len(rates) :
           IF least THEN ~RatLess(rates[i], x) ELSE ~RatLess(x, rates[i])

\* C19: for a ledger with rows, the report's trade count is the number of
\* its TradeRecords (one per closed trade, the placeholder row not among
\* them), its win rate is the share of records with a return above zero,
\* and its maximum and minimum per-trade return are the largest and the
\* smallest return rate of the ledger; the rates as the report shows them,
\* percentages to one decimal.
C19_ReportCounts ==
    (last_call.op = "pnl_analysis" /\ Len(Ledger(exchange)) > 0) =>
        LET rates == Returns(exchange)
            wins == Cardinality({i \in 1 .. Len(rates) : rates[i].num > 0})
            report == last_call.ret
        IN  /\ report # EmptyReport
            /\ report["Number of trades"] = Len(rates)
            /\ report["Number of trades"] = ClosedFills
            /\ report["Win rate"] = Percent(Rat(wins, Len(rates)))
            /\ \E x \in {rates[i] : i \in 1 .. Len(rates)} :
                   /\ Extreme(x, rates, FALSE)
                   /\ report["Max profit rate (per trade)"] = Percent(x)
            /\ \E x \in {rates[i] : i \in 1 .. Len(rates)} :
                   /\ Extreme(x, rates, TRUE)
                   /\ report["Max loss rate (per trade)"] = Percent(x)

\* Two trades, one won and one lost: a win rate of 50.0%.
C19_Witness ==
    /\ last_call.op = "pnl_analysis"
    /\ Len(Ledger(exchange)) = 2
    /\ last_call.ret["Number of trades"] = 2
    /\ last_call.ret["Win rate"] = 500
    /\ last_call.ret["Max loss rate (per trade)"] < 0
    /\ last_call.ret["Max profit rate (per trade)"] > 0

\* The balance change each row of the ledger records: its balance less the
\* balance of the row before it, the placeholder's for the first.
Gains(ex) ==
    [i \in 1 .. Len(Ledger(ex)) |->
        ex.position_history[i + 1].balance - ex.position_history[i].balance]

\* C20: for a ledger with rows, the report's win/loss ratio is the average
\* balance gain of the winning trades over the average balance loss of the
\* losing trades, a trade winning or losing by the sign of its return
\* rate; with no losing trade and at least one winning trade it is
\* infinite.  The ratio as the report shows it, to two decimals.
C20_WinLossRatio ==
    (last_call.op = "pnl_analysis" /\ Len(Ledger(exchange)) > 0) =>
        LET rates == Returns(exchange)
            gains == Gains(exchange)
            n == Len(rates)
            won == [i \in 1 .. n |-> rates[i].num > 0]
            lost == [i \in 1 .. n |-> rates[i].num < 0]
            winners == Cardinality({i \in 1 .. n : won[i]})
            losers == Cardinality({i \in 1 .. n : lost[i]})
            gained == SumIf(gains, won, n)
            given_up == -SumIf(gains, lost, n)
            ratio == last_call.ret["P&L ratio"]
        IN  /\ (winners > 0 /\ losers > 0)
                   => /\ ~ratio.inf
                      /\ gained > 0 /\ given_up > 0
                      /\ ratio.hundredths
                             = Fixed(gained * losers, winners * given_up, 2)
            /\ (winners > 0 /\ losers = 0) => ratio.inf

\* One trade won and one lost: a finite ratio above zero.
C20_Witness ==
    /\ last_call.op = "pnl_analysis"
    /\ Len(Ledger(exchange)) = 2
    /\ \E i, j \in 1 .. 2 : /\ Returns(exchange)[i].num > 0
                            /\ Returns(exchange)[j].num < 0
    /\ ~last_call.ret["P&L ratio"].inf
    /\ last_call.ret["P&L ratio"].hundredths > 0

\* f'{x:.1f}' of a balance x held in balance units.
ShownBalance(ex, balance) == Fixed(balance, Unit(ex.symbol_info), 1)

\* The last row of _position_history.
LastRow(ex) == ex.position_history[Len(ex.position_history)]

\* A replay that ended with at least one closed trade and its report.
ReportedReplay ==
    pc = "done" /\ last_call.op = "pnl_analysis" /\ Len(Ledger(exchange)) > 0

\* C21 as claimed: the report's final balance is the account balance at
\* the end of the replay, a position being open then or not.
C21_AsClaimed ==
    ReportedReplay
        => last_call.ret["Final balance"]
               = ShownBalance(exchange, fetch_account_balance(exchange))

\* C21, amended: the report's final balance is the balance recorded by the
\* last closed trade.  It is the account balance at the end of the replay
\* when no position is open then; a position still open has been charged
\* to the account and not to the report.
C21_FinalBalance ==
    ReportedReplay
        => /\ last_call.ret["Final balance"]
                  = ShownBalance(exchange, LastRow(exchange).balance)
           /\ is_none(exchange.position)
                  => last_call.ret["Final balance"]
                         = ShownBalance(exchange,
                                        fetch_account_balance(exchange))

\* A replay that closed a trade and ended flat, at a balance other than
\* the starting one.
C21_Witness ==
    /\ ReportedReplay
    /\ is_none(exchange.position)
    /\ exchange.balance # exchange.position_history[1].balance
    /\ last_call.ret["Final balance"]
           = ShownBalance(exchange, exchange.balance)

\* Fills i and i + 1 are a round trip: fill i opens from FLAT and the next
\* create_order closes it with the inverse side, the same amount and price.
RoundTrip(i) ==
    /\ i + 1 <= Len(fills)
    /\ ~fills[i].raised /\ ~fills[i + 1].raised
    /\ Opened(fills[i])
    /\ fills[i + 1].side = inverse(fills[i].after.position)
    /\ fills[i + 1].amount = fills[i].amount
    /\ fills[i + 1].price = fills[i].price

\* The row the closing fill f appended to the history ex holds.
RowOf(ex, f) == ex.position_history[f.after.trades + 1]

\* C22: with a taker fee of 0, opening from FLAT and at once closing with
\* the inverse side at the same amount and price appends one TradeRecord
\* whose return rate is exactly 0 and leaves the balance where it was
\* before the opening fill.
C22_RoundTripAtZeroFee ==
    exchange.symbol_info.taker.num = 0 =>
        \A i \in 1 .. Len(fills) :
            RoundTrip(i) =>
                /\ Closed(fills[i + 1])
                /\ fills[i + 1].after.trades = fills[i].before.trades + 1
                /\ RowOf(exchange, fills[i + 1]).return.num = 0
                /\ fills[i + 1].after.balance = fills[i].before.balance

\* C22 witness: at fee 0 a short round trip (sell, then buy) has been made;
\* the sell moved the balance and the buy brought it back.
C22_Witness ==
    /\ pc = "port"
    /\ exchange.symbol_info.taker.num = 0
    /\ Len(fills) = 2
    /\ RoundTrip(1)
    /\ fills[1].side = SELL
    /\ fills[1].after.balance > fills[1].before.balance
    /\ exchange.balance = fills[1].before.balance
    /\ Len(Ledger(exchange)) = 1

\* The fill f left the balance lower by amount * price * taker_fee than the
\* same fill would have with a fee of 0, which moves the balance by
\* -sign(side) * amount * price.  Units as in ChargedExactly.
FeeIsCost(f, symbol_info) ==
    LET fee == symbol_info.taker
        steps == symbol_info.precision.amount.den
        s == IF f.side = BUY THEN 1 ELSE -1
    IN  (f.after.balance - f.before.balance) * steps * fee.den
            = (-s * f.amount * f.price * fee.den
                  - f.amount * f.price * fee.num) * Unit(symbol_info)

\* C23: the taker fee is a cost on every fill: with a fee above 0, after a
\* fill of either side, opening or closing, the balance is lower by
\* amount * price * taker_fee than after the same fill at a fee of 0.
C23_FeeIsCost ==
    exchange.symbol_info.taker.num > 0 =>
        \A i \in 1 .. Len(fills) : FeeIsCost(fills[i], exchange.symbol_info)

\* The history before the step is a prefix of the history after it, every
\* row with its fields as they were.
LedgerKept ==
    /\ Len(exchange'.position_history) >= Len(exchange.position_history)
    /\ SubSeq(exchange'.position_history, 1, Len(exchange.position_history))
           = exchange.position_history

\* A pnl_analysis call leaves the ledger, the balance, the mirror and the
\* time cursor as they were.
ReportKeeps ==
    last_call'.op = "pnl_analysis" =>
        /\ exchange'.position_history = exchange.position_history
        /\ exchange'.balance = exchange.balance
        /\ exchange'.position = exchange.position
        /\ exchange'.time_index = exchange.time_index

\* C24: the ledger is append-only over any sequence of create_order, next,
\* fetch_position, fetch_account_balance and pnl_analysis calls: every
\* earlier ledger is a prefix of every later one, fields unchanged; and
\* pnl_analysis leaves ledger, balance, mirror and time cursor unchanged.
C24_AppendOnly == [][LedgerKept /\ ReportKeeps]_vars

\* C24 witness: a report has been made of a ledger with a row, after which
\* the row is still the one the closing fill appended.
C24_Witness ==
    /\ pc = "port"
    /\ last_call.op = "pnl_analysis"
    /\ Len(Ledger(exchange)) = 1
    /\ Len(fills) = 2 /\ Closed(fills[2])
    /\ RowOf(exchange, fills[2]).balance = fills[2].after.balance
    /\ exchange.position_history[1] = InitialRow(fills[1].before.balance)

\* Setup fetched rows, and the historical data made of them has fewer
\* points than MIN_REQUIRED_DATA.
TooFewPoints ==
    /\ last_call.op = "init"
    /\ ~HistoricalRaises(last_call.rows)
    /\ HistoricalLen(last_call.rows) < trader.config.MIN_REQUIRED_DATA

\* Nothing has run since construction: no cycle, no port call, no order.
NothingRan ==
    /\ last_call.op = "init"
    /\ cycle = NoCycle
    /\ time_index = NoIndex
    /\ fills = <<>>
    /\ Mirror(exchange) = "FLAT"
    /\ Len(Ledger(exchange)) = 0

\* C25: when the historical data at setup has fewer points than
\* MIN_REQUIRED_DATA, create_trader raises before a Trader exists: no
\* decision cycle runs, no position is fetched and no order is placed.
C25_SetupFailure ==
    /\ TooFewPoints => pc = "setup_failed"
    /\ pc = "setup_failed" => NothingRan

\* C25 witness: one row was fetched, fetch_historical_data dropped it, and
\* setup failed on the empty series.
C25_Witness ==
    /\ TooFewPoints
    /\ last_call.rows = trader.config.MIN_REQUIRED_DATA
    /\ pc = "setup_failed"
    /\ NothingRan

\* A port call of the live invocation raised, at setup or in the cycle.
PortFailed == last_call.op = "lambda_handler" /\ pc = "failed"

\* C26 as claimed: in a live invocation every market-port failure, a
\* network error or an API error alike, raised at setup or in the decision
\* cycle leaves lambda_handler as the exception it is; it is never turned
\* into a returned value.
C26_AsClaimed == PortFailed => last_call.ret = Raised(last_call.error)

\* C26, amended: a market-port failure that is a network error leaves
\* lambda_handler unchanged, for the scheduler to retry; any other port
\* failure, an API error among them, is logged and turned into the
\* returned value with statusCode 500.
C26_NetworkErrorsPropagate ==
    PortFailed =>
        /\ last_call.error = "NetworkError"
               => last_call.ret = Raised("NetworkError")
        /\ last_call.error # "NetworkError"
               => last_call.ret = Returned(500)

\* C26 witness: the exchange answered create_order with an API error, and
\* the handler returned statusCode 500.
C26_Witness ==
    /\ PortFailed
    /\ fault = "create_order"
    /\ last_call.error = "ExchangeError"
    /\ cycle.n = 1 /\ Len(cycle.orders) = 1
    /\ last_call.ret.statusCode = 500

\* Step j of the simulator's series, counted from 0 as time_index counts,
\* exists; and the time the series gives it.
StepExists(ex, j) == 0 <= j /\ j < Len(ex.historical_data)
TimeOfStep(ex, j) == ex.historical_data[j + 1]

\* The orders of the cycle c went through and carry the time of the step
\* after the cycle's index; so does the position one of them opened.
StampedNextStep(c) ==
    \A k \in 1 .. Len(c.orders) :
        /\ ~c.orders[k].raised
        /\ StepExists(exchange, c.index[1] + 1)
        /\ c.orders[k].order.time = TimeOfStep(exchange, c.index[1] + 1)
        /\ Opened(c.orders[k])
               => c.orders[k].after.position.entry_time
                      = TimeOfStep(exchange, c.index[1] + 1)
        /\ Closed(c.orders[k])
               => RowOf(exchange, c.orders[k]).closeTime
                      = TimeOfStep(exchange, c.index[1] + 1)

\* C27: every fill of the replay cycle for time index i is stamped with
\* the series time of step i + 1, and for every index i that next() hands
\* to the Trader step i + 1 exists: the timestamp lookup of create_order
\* never goes past the end of the series.
C27_StampedNextStep ==
    /\ pc = "trade" => StepExists(exchange, time_index[1] + 1)
    /\ cycle.n > 0 => StampedNextStep(cycle)

\* C27 witness: the cycle for the last index next() hands out placed an
\* order, stamped with the time of the last step of the series.
C27_Witness ==
    /\ cycle.n > 1
    /\ cycle.index[1] + 2 = Len(exchange.historical_data)
    /\ Len(cycle.orders) = 1
    /\ cycle.orders[1].order.time
           = exchange.historical_data[Len(exchange.historical_data)]

\* The step is a decision cycle of the replay; the prices it reads are the
\* Trader's series at the index next() handed out.
CycleStep == pc = "trade" /\ cycle'.n = cycle.n + 1
PriceNow == item(trader.historical_prices, time_index[1])
ForecastNow == item(trader.predicted_prices, time_index[1])

\* A cycle that finds a position open closes it when should_close_position
\* holds at the cycle's prices, with one row appended, and otherwise
\* leaves it as it is; a cycle that finds none open closes nothing.
HeldUntilClose ==
    CycleStep =>
        IF Mirror(exchange) = "OPEN"
        THEN IF should_close_position(trader.strategy, exchange.position,
                                      PriceNow, ForecastNow)
             THEN /\ Mirror(exchange') = "FLAT"
                  /\ Len(Ledger(exchange')) = Len(Ledger(exchange)) + 1
                  /\ LastRow(exchange').entryTime
                         = exchange.position.entry_time
             ELSE /\ exchange'.position = exchange.position
                  /\ cycle'.orders = <<>>
        ELSE /\ Ledger(exchange') = Ledger(exchange)
             /\ \A k \in 1 .. Len(cycle'.orders) : Opened(cycle'.orders[k])

\* C28: in a replay a position opened in cycle i stays open through every
\* later cycle in which should_close_position is false and is closed in
\* the first later cycle in which it is true, the first cycle with the
\* price beyond the stop-loss bound in particular; it is never closed in
\* the cycle that opened it.
C28_HeldUntilClose == [][HeldUntilClose]_vars

\* C28 witness: a long opened in the first cycle was held through the
\* second and closed in the third, on the stop-loss bound alone.
C28_Witness ==
    /\ cycle.n = 3
    /\ Len(fills) = 2
    /\ Opened(fills[1]) /\ fills[1].side = BUY
    /\ fills[1].order.time = TimeOfStep(exchange, 1)
    /\ Closed(fills[2]) /\ cycle.orders = <<fills[2]>>
    /\ cycle.predicted_price > cycle.current_price
    /\ BelowStop(trader.strategy, fills[1].price, cycle.current_price)

\* C29: in every reachable state of the simulator with the mirror FLAT the
\* account balance equals the balance stored in the last row of the
\* position history (the starting balance when no trade has closed); the
\* two differ only while a position is open.
C29_FlatAtRecordedBalance ==
    Mirror(exchange) = "FLAT"
        => exchange.balance = LastRow(exchange).balance

Sign(x) == IF x > 0 THEN 1 ELSE IF x < 0 THEN -1 ELSE 0

\* The rows pnl_analysis counts as wins and as losses, by return rate, and
\* the rows whose balance change it sums as profit and as loss.
WonByReturn(ex) == {i \in 1 .. Len(Ledger(ex)) : Returns(ex)[i].num > 0}
LostByReturn(ex) == {i \in 1 .. Len(Ledger(ex)) : Returns(ex)[i].num < 0}
WonByBalance(ex) == {i \in 1 .. Len(Ledger(ex)) : Gains(ex)[i] > 0}
LostByBalance(ex) == {i \in 1 .. Len(Ledger(ex)) : Gains(ex)[i] < 0}

\* C30: for every TradeRecord a replay through the Trader produces, the
\* change of the recorded balance from the history row before it has the
\* sign of the record's return rate; so the wins counted by return rate
\* are the trades summed as gains by balance change, and the same for the
\* losses.
C30_SignsAgree ==
    pc \in {"run", "trade", "evaluate", "done"} =>
        /\ \A i \in 1 .. Len(Ledger(exchange)) :
               /\ Ledger(exchange)[i].amount > 0
               /\ Ledger(exchange)[i].entryPrice > 0
               /\ Sign(Gains(exchange)[i]) = Sign(Returns(exchange)[i].num)
        /\ WonByReturn(exchange) = WonByBalance(exchange)
        /\ LostByReturn(exchange) = LostByBalance(exchange)

\* C30 witness: at a fee above 0 a replay closed a long with a gain and
\* then a short with a loss.
C30_Witness ==
    /\ pc = "run"
    /\ exchange.symbol_info.taker.num > 0
    /\ Len(Ledger(exchange)) = 2
    /\ Ledger(exchange)[1].side = BUY
    /\ 1 \in WonByBalance(exchange)
    /\ Ledger(exchange)[2].side = SELL
    /\ 2 \in LostByBalance(exchange)

\* C31: in every ledger a replay produces, each TradeRecord's opened time
\* is strictly earlier than its closed time, and strictly later than the
\* closed time of the record before it: the trade intervals are ordered
\* and never overlap.
C31_IntervalsOrdered ==
    LET ledger == Ledger(exchange)
    IN  /\ \A i \in 1 .. Len(ledger) :
               ledger[i].entryTime < ledger[i].closeTime
        /\ \A i \in 2 .. Len(ledger) :
               ledger[i - 1].closeTime < ledger[i].entryTime
        /\ (Mirror(exchange) = "OPEN" /\ Len(ledger) > 0)
               => LastRow(exchange).closeTime < exchange.position.entry_time

\* C31 witness: a replay closed two trades, the second opened in the cycle
\* right after the one that closed the first.
C31_Witness ==
    /\ Len(Ledger(exchange)) = 2
    /\ Ledger(exchange)[1].closeTime + 1 = Ledger(exchange)[2].entryTime
    /\ Ledger(exchange)[2].entryTime + 1 = Ledger(exchange)[2].closeTime
    /\ cycle.n = 4

\* A decision cycle of the replay that submits no order leaves the whole
\* simulator as it was, the time cursor too; between cycles next() moves
\* the cursor by one step and nothing else.
QuietCycle ==
    /\ (CycleStep /\ cycle'.orders = <<>>)
           => /\ exchange' = exchange
              /\ ~cycle'.raised
              /\ fills' = fills
    /\ (pc = "run" /\ exchange' # exchange)
           => exchange' = [exchange EXCEPT !.time_index = @ + 1]

\* C32: a replay cycle that submits no order (the strategy declines to
\* open, the sized amount is below the floor, or the strategy declines to
\* close) leaves the simulator's balance, position mirror and ledger
\* exactly as they were before the cycle; only the time cursor advances
\* between cycles.
C32_QuietCycle == [][QuietCycle]_vars

\* C32 witness: after a closed trade, a cycle found the mirror flat, the
\* strategy agreed to open, and the sized amount was below the floor: no
\* order, and balance, mirror and ledger are as the cycle found them.
C32_Witness ==
    /\ cycle.n > 2
    /\ Len(Ledger(exchange)) = 1
    /\ cycle.asked.question = "open" /\ cycle.asked.answer
    /\ cycle.orders = <<>>
    /\ Seen(exchange) = cycle.before
    /\ exchange.balance # exchange.position_history[1].balance

\* C33: in a replay the simulator's series (the fetched rows trimmed by
\* WINDOW_SIZE - 1) and the Trader's historical and forecast series (the
\* last fetched row dropped, then trimmed by MIN_REQUIRED_DATA - 1) are
\* index-aligned: every index next() hands to the Trader is a valid index
\* of the Trader's historical series and of its forecast series, and the
\* two Trader series have equal length.
C33_IndexAligned ==
    /\ Len(trader.historical_prices) = Len(trader.predicted_prices)
    /\ pc = "trade"
           => /\ InRange(trader.historical_prices, time_index[1])
              /\ InRange(trader.predicted_prices, time_index[1])

====
